---- MODULE Spec2Model ----
(***************************************************************************)
(* A model of final_scraper.py: the Star Wars film-table scraper.          *)
(*                                                                         *)
(*   Spec         one run of main(): three extract_films calls, the rest   *)
(*                of prepare_dw_data, create_dw_chart, update_dw_chart.    *)
(*   SpecProcess  one call of process_films on an arbitrary table, one     *)
(*                statement per step, on a heap of DataFrames so that      *)
(*                aliasing between the caller's frame and the local one    *)
(*                is visible.                                              *)
(*   SpecExtract  one call of extract_films with an arbitrary page and an  *)
(*                arbitrary table_index.                                   *)
(*                                                                         *)
(* Texts are sequences of one-character strings, so that the substring     *)
(* test of process_films is computed and not assumed.                      *)
(***************************************************************************)
EXTENDS Integers, Sequences, FiniteSets, TLC

VARIABLES
    pc,         \* position of main(): "extract", "prepare", "create", "update", "return", "done", "raised"
    film_data,  \* prepare_dw_data: category -> DataFrame extracted so far
    todo,       \* prepare_dw_data: categories still to extract, in dict order
    http_gets,  \* every requests.get issued so far (the url), in order
    errlog,     \* every logging.error record so far
    dw_calls,   \* every Datawrapper API call issued so far, in order
    dw_data,    \* main: the dataset returned by prepare_dw_data
    chart_id,   \* main: the id returned by create_dw_chart
    ret,        \* main: the return value
    exc,        \* the exception that ended the run, "" when none
    pf,         \* the activation record of process_films (SpecProcess)
    df0,        \* the frame the caller passed to process_films, as it was before the call
    ex          \* the activation record of extract_films (SpecExtract)

vars == <<pc, film_data, todo, http_gets, errlog, dw_calls, dw_data, chart_id, ret, exc, pf, df0, ex>>

-----------------------------------------------------------------------------
(* Bounds of the model *)

\* SpecProcess: most rows of the table handed to process_films
MaxRows == 3
\* Spec: most rows of the Skywalker table of a fetched page
MaxSkyRows == 2
\* Spec: most rows of the Standalone and of the Special table of a fetched page
MaxOtherRows == 1
\* SpecExtract: most tables the class pattern selects
MaxTables == 2

-----------------------------------------------------------------------------
(* Texts *)

URL == "https://en.wikipedia.org/wiki/Star_Wars"

\* the literal "trilogy" of lines 109 and 114
TrilogyPattern == <<"t","r","i","l","o","g","y">>

OldTrilogy == <<"O","l","d"," ","t","r","i","l","o","g","y">>
NewTrilogy == <<"N","e","w"," ","t","r","i","l","o","g","y">>
Solo       == <<"S","o","l","o">>
\* a title with a capital T: the test of line 109 is case-sensitive
CapTrilogy == <<"T","r","i","l","o","g","y">>

Titles == {OldTrilogy, NewTrilogy, Solo, CapTrilogy}

May1977  == <<"May", "25", "1977">>
Dec2015  == <<"December", "18", "2015">>
TBA      == <<"TBA">>
DateTexts == {May1977, Dec2015, TBA}

Lucas == <<"L","u","c","a","s">>

Max(S) == CHOOSE x \in S : \A y \in S : y <= x

\* Python: pat in s  (also Series.str.contains for a pattern without regex metacharacters)
Contains(s, pat) ==
    \E i \in 0..(Len(s) - Len(pat)) : SubSeq(s, i + 1, i + Len(pat)) = pat

-----------------------------------------------------------------------------
(* Cells and DataFrames *)

\* A cell of a DataFrame. str holds a text, num the numbers of a datetime
\* <<year, month, day>> or of an integer <<n>>.
NoneCell        == [kind |-> "None", str |-> <<>>, num |-> <<>>]
StrCell(s)      == [kind |-> "str", str |-> s, num |-> <<>>]
Datetime(y,m,d) == [kind |-> "datetime", str |-> <<>>, num |-> <<y, m, d>>]
IntCell(n)      == [kind |-> "int", str |-> <<>>, num |-> <<n>>]

FilmCol    == "Film"
DateCol    == "U.S. release date"
TrilogyCol == "Trilogy"
YearCol    == "Year"

\* An HTML table as BeautifulSoup selects it: a header row and body rows of texts.
TableHeader == <<FilmCol, DateCol, "Director">>

HtmlRow(film, date) == <<film, date, Lucas>>

RECURSIVE SeqsUpTo(_, _)
SeqsUpTo(S, n) ==
    IF n = 0 THEN {<<>>}
    ELSE LET shorter == SeqsUpTo(S, n - 1)
         IN  shorter \cup {Append(s, x) : s \in {t \in shorter : Len(t) = n - 1}, x \in S}

HtmlRows == {HtmlRow(f, d) : f \in Titles, d \in DateTexts}

\* the class pattern of line 133
ClassName == "wikitable plainrowheaders"

HtmlTables(rows, n) ==
    {[class |-> ClassName, header |-> TableHeader, body |-> b] : b \in SeqsUpTo(rows, n)}

\* pd.read_html(..., header=0)[0]: the first row names the columns, the body rows
\* become the rows, labelled 0, 1, 2, ... (RangeIndex)
ReadHtml(t) ==
    [columns |-> t.header,
     rows    |-> [k \in 1..Len(t.body) |->
                    [idx   |-> k - 1,
                     cells |-> [c \in {t.header[j] : j \in 1..Len(t.header)} |->
                                 StrCell(t.body[k][CHOOSE j \in 1..Len(t.header) : t.header[j] = c])]]]]

FilmOf(row) == row.cells[FilmCol].str

\* line 109 / line 114: the row is a trilogy header row
IsHeaderRow(row) == Contains(FilmOf(row), TrilogyPattern)

-----------------------------------------------------------------------------
(* pd.to_datetime *)

MonthNames == {"May", "December"}
MonthNumber(name) == CASE name = "May" -> 5 [] name = "December" -> 12
Numerals == {"18", "25", "1977", "2015"}
NumeralValue(t) ==
    CASE t = "18" -> 18 [] t = "25" -> 25 [] t = "1977" -> 1977 [] t = "2015" -> 2015

\* the text is a date of the form "<month name> <day>, <year>"
Parses(text) ==
    /\ Len(text) = 3
    /\ text[1] \in MonthNames
    /\ text[2] \in Numerals
    /\ text[3] \in Numerals

ParseDate(text) == Datetime(NumeralValue(text[3]), MonthNumber(text[1]), NumeralValue(text[2]))

\* pd.to_datetime(series) with the default errors="raise": every text of the
\* column converts, or the call raises
CanConvert(frame, col) ==
    \A k \in 1..Len(frame.rows) :
        LET cell == frame.rows[k].cells[col]
        IN  cell.kind = "str" /\ Parses(cell.str)

\* df[col] = pd.to_datetime(df[col])
ToDatetimeColumn(frame, col) ==
    [frame EXCEPT !.rows =
        [k \in 1..Len(frame.rows) |->
            [frame.rows[k] EXCEPT !.cells[col] = ParseDate(frame.rows[k].cells[col].str)]]]

-----------------------------------------------------------------------------
(* DataFrame operations used by process_films *)

ColumnSet(frame) == {frame.columns[j] : j \in 1..Len(frame.columns)}

\* df[col] = value  for a scalar value: the column is overwritten, or appended as
\* the last column when it is new
SetColumn(frame, col, value) ==
    [columns |-> IF col \in ColumnSet(frame) THEN frame.columns ELSE Append(frame.columns, col),
     rows    |-> [k \in 1..Len(frame.rows) |->
                    [idx   |-> frame.rows[k].idx,
                     cells |-> [c \in ColumnSet(frame) \cup {col} |->
                                 IF c = col THEN value ELSE frame.rows[k].cells[c]]]]]

\* df.at[index, col] = value: the cell of the row(s) labelled index
SetAt(frame, index, col, value) ==
    [frame EXCEPT !.rows =
        [k \in 1..Len(frame.rows) |->
            IF frame.rows[k].idx = index
            THEN [frame.rows[k] EXCEPT !.cells[col] = value]
            ELSE frame.rows[k]]]

\* line 114 lost: the header rows stay
FilterOutHeaderRows_KeepsAll(frame) == frame

\* df[~df["Film"].str.contains("trilogy")]: a new frame of the rows that are not
\* header rows, in order, with their labels
FilterOutHeaderRows(frame) ==
    [frame EXCEPT !.rows = SelectSeq(frame.rows, LAMBDA r : ~IsHeaderRow(r))]

\* df.iloc[:, 0:2]: a new frame of the first two columns, by position
FirstTwoColumns(frame) ==
    LET n    == IF Len(frame.columns) < 2 THEN Len(frame.columns) ELSE 2
        cols == SubSeq(frame.columns, 1, n)
    IN  [columns |-> cols,
         rows    |-> [k \in 1..Len(frame.rows) |->
                        [idx   |-> frame.rows[k].idx,
                         cells |-> [c \in {cols[j] : j \in 1..n} |-> frame.rows[k].cells[c]]]]]

\* lines 109-110 with the bug of taking a header only while trilogy is still "":
\* every row is labelled with the first header of the table
NextTrilogy_KeepsFirst(trilogy, film) ==
    IF Contains(film, TrilogyPattern) /\ trilogy = <<>> THEN film ELSE trilogy

\* lines 109-110: the value of the local variable trilogy after a row whose Film is film
NextTrilogy(trilogy, film) ==
    IF Contains(film, TrilogyPattern) THEN film ELSE trilogy

\* lines 109-112 with the else of line 111 lost: header rows are labelled too
LabelRow_AlsoHeaders(frame, row, trilogy) ==
    SetAt(frame, row.idx, TrilogyCol, StrCell(trilogy))

\* lines 109-112: the frame after the loop body has run for row (a header row is
\* left alone, any other row gets the current value of trilogy)
LabelRow(frame, row, trilogy) ==
    IF Contains(FilmOf(row), TrilogyPattern)
    THEN frame
    ELSE SetAt(frame, row.idx, TrilogyCol, StrCell(trilogy))

-----------------------------------------------------------------------------
(* process_films, one statement per step *)

\* line 101 lost: the local df is the caller's frame
DfCopy_Alias(heap, ref) == [heap |-> heap, ref |-> ref]

\* df.copy() (deep): the heap grown by a copy of the frame at ref, and the
\* reference of that copy
DfCopy(heap, ref) == [heap |-> Append(heap, heap[ref]), ref |-> Len(heap) + 1]

\* the activation record at the call: heap holds the caller's frame at argRef
PFCall(heap, argRef, needed_flag) ==
    [pc |-> "L101", heap |-> heap, arg |-> argRef, df |-> argRef,
     needed_flag |-> needed_flag, trilogy |-> <<>>, i |-> 1, result |-> 0, exc |-> ""]

PFDone(s) == s.pc \in {"return", "raise"}

\* one statement of process_films
PFStep(s) ==
    LET frame == s.heap[s.df] IN
    CASE s.pc = "L101" ->
            LET c == DfCopy(s.heap, s.df)
            IN  [s EXCEPT !.heap = c.heap,
                          !.df   = c.ref,
                          !.pc   = IF s.needed_flag THEN "L104" ELSE "L117"]
      [] s.pc = "L104" ->
            [s EXCEPT !.heap[s.df] = SetColumn(frame, TrilogyCol, NoneCell),
                      !.trilogy = <<>>,
                      !.i = 1,
                      !.pc = "L107"]
      [] s.pc = "L107" ->
            IF s.i > Len(frame.rows)
            THEN [s EXCEPT !.pc = "L114"]
            ELSE LET row == frame.rows[s.i]
                 IN  [s EXCEPT !.heap[s.df] = LabelRow(frame, row, s.trilogy),
                               !.trilogy = NextTrilogy(s.trilogy, FilmOf(row)),
                               !.i = s.i + 1]
      [] s.pc = "L114" ->
            [s EXCEPT !.heap = Append(s.heap, FilterOutHeaderRows(frame)),
                      !.df   = Len(s.heap) + 1,
                      !.pc   = "L115"]
      [] s.pc \in {"L115", "L117"} ->
            IF CanConvert(frame, DateCol)
            THEN [s EXCEPT !.heap[s.df] = ToDatetimeColumn(frame, DateCol), !.pc = "L119"]
            ELSE [s EXCEPT !.exc = "ParserError", !.pc = "raise"]
      [] s.pc = "L119" ->
            [s EXCEPT !.heap = Append(s.heap, FirstTwoColumns(frame)),
                      !.result = Len(s.heap) + 1,
                      !.pc = "return"]

\* the whole call
RECURSIVE PFRun(_)
PFRun(s) == IF PFDone(s) THEN s ELSE PFRun(PFStep(s))

-----------------------------------------------------------------------------
(* scrape_website_requests and extract_films *)

EmptyFrame == [columns |-> <<>>, rows |-> <<>>]

\* what the network answers to one GET: a response with a status and a page (the
\* tables of the document, in document order), or a failure of the transport
Response(status, page) == [kind |-> "response", status |-> status, page |-> page]
TransportFailure(kind) == [kind |-> kind, status |-> 0, page |-> <<>>]

\* response.raise_for_status() raises HTTPError for a 4xx or 5xx status
IsErrorStatus(status) == status >= 400 /\ status < 600

\* lines 39-46 without line 41: the response is returned whatever its status
ScrapeWebsiteRequests_NoStatusCheck(url, net) ==
    LET raised == IF net.kind # "response" THEN net.kind ELSE ""
    IN  [gets     |-> <<[url |-> url, net |-> net]>>,
         returned |-> raised = "",
         exc      |-> raised,
         logged   |-> IF raised = "" THEN <<>> ELSE <<[level |-> "ERROR", exc |-> raised]>>]

\* lines 39-46 with a second GET of the url after a failed one
ScrapeWebsiteRequests_Retries(url, net) ==
    LET raised == IF net.kind # "response" THEN net.kind
                  ELSE IF IsErrorStatus(net.status) THEN "HTTPError"
                  ELSE ""
        get    == [url |-> url, net |-> net]
    IN  [gets     |-> IF raised = "" THEN <<get>> ELSE <<get, get>>,
         returned |-> raised = "",
         exc      |-> raised,
         logged   |-> IF raised = "" THEN <<>> ELSE <<[level |-> "ERROR", exc |-> raised]>>]

\* lines 39-46: the GETs issued, whether a response is returned, the exception
\* raised ("" when none) and the records logged
ScrapeWebsiteRequests(url, net) ==
    LET raised == IF net.kind # "response" THEN net.kind
                  ELSE IF IsErrorStatus(net.status) THEN "HTTPError"
                  ELSE ""
    IN  [gets     |-> <<[url |-> url, net |-> net]>>,
         returned |-> raised = "",
         exc      |-> raised,
         logged   |-> IF raised = "" THEN <<>> ELSE <<[level |-> "ERROR", exc |-> raised]>>]

\* the class attribute values that contain class_name as a substring
ClassMatches(cls, class_name) ==
    class_name = ClassName /\ cls \in {"wikitable plainrowheaders", "wikitable plainrowheaders sortable"}

\* soup.select(f"table[class*='{class_name}']"): the matching tables in document order
SelectTables(page, class_name) ==
    SelectSeq(page, LAMBDA t : ClassMatches(t.class, class_name))

\* Python list indexing tables[i]: a negative i counts from the end
InListRange(tables, i) == i < Len(tables) /\ i >= 0 - Len(tables)
ListItem(tables, i) == IF i >= 0 THEN tables[i + 1] ELSE tables[Len(tables) + i + 1]

\* lines 62-72
ExtractFilms(url, table_index, class_name, net) ==
    LET scr    == ScrapeWebsiteRequests(url, net)
        tables == SelectTables(net.page, class_name)
        raised == IF ~scr.returned THEN scr.exc
                  ELSE IF table_index >= Len(tables) THEN "IndexError"
                  ELSE IF ~InListRange(tables, table_index) THEN "IndexError"
                  ELSE ""
    IN  [gets     |-> scr.gets,
         logged   |-> scr.logged,
         exc      |-> raised,
         returned |-> raised = "",
         df       |-> IF raised = "" THEN ReadHtml(ListItem(tables, table_index)) ELSE EmptyFrame]

-----------------------------------------------------------------------------
(* prepare_dw_data after the extraction loop *)

\* pd.concat of frames of the same columns: the rows of each, in order, with
\* the labels they had
RECURSIVE ConcatRows(_)
ConcatRows(frames) ==
    IF frames = <<>> THEN <<>> ELSE Head(frames).rows \o ConcatRows(Tail(frames))

\* line 138 without special_films
Concat_DropsLast(frames) ==
    [columns |-> Head(frames).columns, rows |-> ConcatRows(SubSeq(frames, 1, Len(frames) - 1))]

Concat(frames) == [columns |-> Head(frames).columns, rows |-> ConcatRows(frames)]

\* .dt.year
YearOf(cell) == cell.num[1]

\* line 142: df["Year"] = df["U.S. release date"].dt.year
AddYear(frame) ==
    [columns |-> Append(frame.columns, YearCol),
     rows    |-> [k \in 1..Len(frame.rows) |->
                    [idx   |-> frame.rows[k].idx,
                     cells |-> [c \in ColumnSet(frame) \cup {YearCol} |->
                                 IF c = YearCol THEN IntCell(YearOf(frame.rows[k].cells[DateCol]))
                                 ELSE frame.rows[k].cells[c]]]]]

KeyOf(row, col) == row.cells[col].num[1]

\* the orders of the positions in P that are ascending in col
RECURSIVE AscendingOrders(_, _, _)
AscendingOrders(rows, col, P) ==
    IF P = {} THEN {<<>>}
    ELSE LET least == {i \in P : \A j \in P : KeyOf(rows[i], col) <= KeyOf(rows[j], col)}
         IN  UNION {{<<i>> \o o : o \in AscendingOrders(rows, col, P \ {i})} : i \in least}

\* line 143 lost: the rows stay in the order of the concatenation
SortValues_Unsorted(frame, col) == {frame}

\* line 143: df.sort_values(by=col, ascending=True), default kind "quicksort",
\* which is not stable: rows of equal key come out in any order
SortValues(frame, col) ==
    {[frame EXCEPT !.rows = [k \in 1..Len(frame.rows) |-> frame.rows[o[k]]]] :
        o \in AscendingOrders(frame.rows, col, 1..Len(frame.rows))}

\* line 144: df[["Film", "Year"]]
Project(frame, cols) ==
    [columns |-> cols,
     rows    |-> [k \in 1..Len(frame.rows) |->
                    [idx   |-> frame.rows[k].idx,
                     cells |-> [c \in {cols[j] : j \in 1..Len(cols)} |-> frame.rows[k].cells[c]]]]]

\* process_films as prepare_dw_data calls it: the finished activation record
ProcessFilms(df, needed_flag) == PFRun(PFCall(<<df>>, 1, needed_flag))

-----------------------------------------------------------------------------
(* SpecProcess: one call of process_films(df, needed_flag), df any table of at
   most MaxRows rows read by read_html *)

Idle == [pc |-> "idle"]

InitProcess ==
    /\ \E t \in HtmlTables(HtmlRows, MaxRows), flag \in BOOLEAN :
          /\ df0 = ReadHtml(t)
          /\ pf = PFCall(<<ReadHtml(t)>>, 1, flag)
    /\ pc = "process_films"
    /\ film_data = <<>>
    /\ todo = <<>>
    /\ http_gets = <<>>
    /\ errlog = <<>>
    /\ dw_calls = <<>>
    /\ dw_data = EmptyFrame
    /\ chart_id = ""
    /\ ret = ""
    /\ exc = ""
    /\ ex = Idle

ProcessFilmsStep ==
    /\ pc = "process_films"
    /\ ~PFDone(pf)
    /\ pf' = PFStep(pf)
    /\ UNCHANGED <<pc, film_data, todo, http_gets, errlog, dw_calls, dw_data, chart_id, ret, exc, df0, ex>>

NextProcess == ProcessFilmsStep

SpecProcess == InitProcess /\ [][NextProcess]_vars

-----------------------------------------------------------------------------
(* SpecExtract: one call of extract_films(URL, table_index, class_name) on any
   page of at most MaxTables tables and any table_index *)

InfoBox  == [class |-> "infobox", header |-> TableHeader, body |-> <<HtmlRow(CapTrilogy, TBA)>>]
FilmsA   == [class |-> "wikitable plainrowheaders", header |-> TableHeader,
             body |-> <<HtmlRow(Solo, May1977)>>]
FilmsB   == [class |-> "wikitable plainrowheaders sortable", header |-> TableHeader,
             body |-> <<HtmlRow(OldTrilogy, TBA), HtmlRow(Solo, Dec2015)>>]

ExtractPages == SeqsUpTo({InfoBox, FilmsA, FilmsB}, MaxTables)

ExtractNets ==
    {Response(200, p) : p \in ExtractPages}
        \cup {Response(404, <<>>), TransportFailure("ConnectionError"), TransportFailure("Timeout")}

\* extract_films has not run yet
NoOutcome == [gets |-> <<>>, logged |-> <<>>, exc |-> "", returned |-> FALSE, df |-> EmptyFrame]

InitExtract ==
    /\ \E net \in ExtractNets, i \in (0 - MaxTables - 1)..(MaxTables + 1) :
          ex = [pc |-> "call", net |-> net, table_index |-> i, out |-> NoOutcome]
    /\ pc = "extract_films"
    /\ pf = Idle
    /\ df0 = EmptyFrame
    /\ film_data = <<>>
    /\ todo = <<>>
    /\ http_gets = <<>>
    /\ errlog = <<>>
    /\ dw_calls = <<>>
    /\ dw_data = EmptyFrame
    /\ chart_id = ""
    /\ ret = ""
    /\ exc = ""

ExtractFilmsCall ==
    /\ pc = "extract_films"
    /\ ex.pc = "call"
    /\ LET out == ExtractFilms(URL, ex.table_index, ClassName, ex.net)
       IN  /\ ex' = [ex EXCEPT !.pc = "done", !.out = out]
           /\ http_gets' = http_gets \o out.gets
           /\ errlog' = errlog \o out.logged
           /\ exc' = out.exc
    /\ UNCHANGED <<pc, film_data, todo, dw_calls, dw_data, chart_id, ret, pf, df0>>

NextExtract == ExtractFilmsCall

SpecExtract == InitExtract /\ [][NextExtract]_vars

-----------------------------------------------------------------------------
(* Spec: one run of main() *)

\* lines 219-221, in the order of the dict
film_category ==
    <<[category |-> "Skywalker Films",  index |-> 0],
      [category |-> "Standalone Films", index |-> 1],
      [category |-> "Special Films",    index |-> 4]>>

\* the rows a table of a fetched page is made of: a trilogy header row with a
\* date that converts, a film row, a film row with a date that does not convert
PageRows == {HtmlRow(OldTrilogy, Dec2015), HtmlRow(Solo, May1977), HtmlRow(Solo, TBA)}

Filler == [class |-> ClassName, header |-> TableHeader, body |-> <<>>]

LastIndex == Max({film_category[k].index : k \in 1..Len(film_category)})

\* the pages a GET may fetch when the table at index is wanted: no matching table
\* at all, or enough tables, of which only the wanted one is read
PagesFor(item) ==
    LET n == IF item.index = 0 THEN MaxSkyRows ELSE MaxOtherRows
    IN  {<<>>} \cup
        {[i \in 1..(LastIndex + 1) |-> IF i = item.index + 1 THEN t ELSE Filler] :
            t \in HtmlTables(PageRows, n)}

NetsFor(item) ==
    {Response(200, p) : p \in PagesFor(item)}
        \cup {Response(404, <<>>), TransportFailure("ConnectionError"), TransportFailure("Timeout")}

ChartIds == {"abc12", "xyz89"}

Init ==
    /\ pc = "extract"
    /\ film_data = <<>>
    /\ todo = film_category
    /\ http_gets = <<>>
    /\ errlog = <<>>
    /\ dw_calls = <<>>
    /\ dw_data = EmptyFrame
    /\ chart_id = ""
    /\ ret = ""
    /\ exc = ""
    /\ pf = Idle
    /\ df0 = EmptyFrame
    /\ ex = Idle

\* lines 132-133: one iteration of the loop, a whole call of extract_films
Main_ExtractFilms ==
    /\ pc = "extract"
    /\ todo # <<>>
    /\ \E net \in NetsFor(Head(todo)) :
          LET out == ExtractFilms(URL, Head(todo).index, ClassName, net)
          IN  /\ http_gets' = http_gets \o out.gets
              /\ errlog' = errlog \o out.logged
              /\ IF out.returned
                 THEN /\ film_data' = Append(film_data, [category |-> Head(todo).category, df |-> out.df])
                      /\ todo' = Tail(todo)
                      /\ pc' = IF Tail(todo) = <<>> THEN "prepare" ELSE "extract"
                      /\ exc' = exc
                 ELSE /\ exc' = out.exc
                      /\ pc' = "raised"
                      /\ UNCHANGED <<film_data, todo>>
    /\ UNCHANGED <<dw_calls, dw_data, chart_id, ret, pf, df0, ex>>

\* film_data[category]
FilmData(category) ==
    (CHOOSE k \in 1..Len(film_data) : film_data[k].category = category)

\* lines 135-137: the three calls of process_films, in order
Processed ==
    <<ProcessFilms(film_data[FilmData("Skywalker Films")].df, TRUE),
      ProcessFilms(film_data[FilmData("Standalone Films")].df, FALSE),
      ProcessFilms(film_data[FilmData("Special Films")].df, FALSE)>>

\* lines 135-148: the rest of prepare_dw_data
Main_PrepareDwData ==
    /\ pc = "prepare"
    /\ LET calls  == Processed
           raised == {k \in 1..Len(calls) : calls[k].pc = "raise"}
       IN  IF raised # {}
           THEN /\ exc' = calls[CHOOSE k \in raised : \A j \in raised : k <= j].exc
                /\ pc' = "raised"
                /\ UNCHANGED dw_data
           ELSE /\ \E sorted \in SortValues(
                        AddYear(Concat([k \in 1..Len(calls) |-> calls[k].heap[calls[k].result]])),
                        YearCol) :
                      dw_data' = Project(sorted, <<FilmCol, YearCol>>)
                /\ pc' = "create"
                /\ exc' = exc
    /\ UNCHANGED <<film_data, todo, http_gets, errlog, dw_calls, chart_id, ret, pf, df0, ex>>

DwCall(op, id, data, returned) == [op |-> op, chart_id |-> id, data |-> data, returned |-> returned]

\* lines 163-169: the API call create_dw_chart makes when the service answers
\* with id ("" when the call fails)
CreateDwChartCalls(data, id) == <<DwCall("create_chart", "", data, id)>>

\* lines 181-209 ignoring the chart_id argument
UpdateDwChartCalls_WrongId(id, fails) ==
    LET all == <<DwCall("get_chart", "", EmptyFrame, ""),
                 DwCall("update_chart", "", EmptyFrame, ""),
                 DwCall("update_description", "", EmptyFrame, "")>>
    IN  IF fails = "none" THEN all
        ELSE SubSeq(all, 1, CHOOSE k \in 1..Len(all) : all[k].op = fails)

\* lines 181-209: the API calls update_dw_chart makes, up to and including the
\* one that fails ("none" when none fails)
UpdateDwChartCalls(id, fails) ==
    LET all == <<DwCall("get_chart", id, EmptyFrame, ""),
                 DwCall("update_chart", id, EmptyFrame, ""),
                 DwCall("update_description", id, EmptyFrame, "")>>
    IN  IF fails = "none" THEN all
        ELSE SubSeq(all, 1, CHOOSE k \in 1..Len(all) : all[k].op = fails)

\* line 223
Main_CreateDwChart ==
    /\ pc = "create"
    /\ \/ \E id \in ChartIds :
             /\ dw_calls' = dw_calls \o CreateDwChartCalls(dw_data, id)
             /\ chart_id' = id
             /\ pc' = "update"
             /\ exc' = exc
       \/ /\ dw_calls' = dw_calls \o CreateDwChartCalls(dw_data, "")
          /\ exc' = "DatawrapperError"
          /\ pc' = "raised"
          /\ UNCHANGED chart_id
    /\ UNCHANGED <<film_data, todo, http_gets, errlog, dw_data, ret, pf, df0, ex>>

\* line 224
Main_UpdateDwChart ==
    /\ pc = "update"
    /\ \E fails \in {"none", "get_chart", "update_chart", "update_description"} :
          /\ dw_calls' = dw_calls \o UpdateDwChartCalls(chart_id, fails)
          /\ IF fails = "none"
             THEN pc' = "return" /\ exc' = exc
             ELSE pc' = "raised" /\ exc' = "DatawrapperError"
    /\ UNCHANGED <<film_data, todo, http_gets, errlog, dw_data, chart_id, ret, pf, df0, ex>>

\* line 225
Main_Return ==
    /\ pc = "return"
    /\ ret' = "Done"
    /\ pc' = "done"
    /\ UNCHANGED <<film_data, todo, http_gets, errlog, dw_calls, dw_data, chart_id, exc, pf, df0, ex>>

Next ==
    \/ Main_ExtractFilms
    \/ Main_PrepareDwData
    \/ Main_CreateDwChart
    \/ Main_UpdateDwChart
    \/ Main_Return

Spec == Init /\ [][Next]_vars

-----------------------------------------------------------------------------
(* Properties of process_films *)

\* the positions of the header rows of the input table before position k
HeadersBefore(k) == {j \in 1..(k - 1) : IsHeaderRow(df0.rows[j])}

\* the frame the forward-fill loop of lines 107-112 has run over completely
FillDone == pf.pc = "L114" /\ pf.needed_flag

Filled == pf.heap[pf.df]

\* C1: after the forward-fill (needed_flag true) every film row with a trilogy
\* header row before it carries the Film text of the nearest preceding header
\* row, for every input table.
C1_NearestHeaderLabel ==
    FillDone =>
        \A k \in 1..Len(df0.rows) :
            (~IsHeaderRow(df0.rows[k]) /\ HeadersBefore(k) # {}) =>
                Filled.rows[k].cells[TrilogyCol]
                    = StrCell(FilmOf(df0.rows[Max(HeadersBefore(k))]))

\* a film row after two header rows of different texts has been labelled
C1_Witness ==
    /\ FillDone
    /\ \E k \in 1..Len(df0.rows) :
          /\ ~IsHeaderRow(df0.rows[k])
          /\ \E j1, j2 \in HeadersBefore(k) :
                j1 < j2 /\ FilmOf(df0.rows[j1]) # FilmOf(df0.rows[j2])

\* C2 as stated: a non-header row has a Trilogy value when a header row precedes
\* it and None when none does; a header row has None.
C2_AsStated ==
    FillDone =>
        \A k \in 1..Len(df0.rows) :
            LET cell == Filled.rows[k].cells[TrilogyCol] IN
            IF IsHeaderRow(df0.rows[k]) THEN cell = NoneCell
            ELSE IF HeadersBefore(k) # {} THEN cell.kind = "str" /\ cell.str # <<>>
            ELSE cell = NoneCell

\* C2 (amended): after the forward-fill every non-header row has exactly one
\* Trilogy value, a non-empty text when a header row precedes it and the empty
\* string "" (not None) when none does; a header row keeps None.
C2_OneValueOrEmptyString ==
    FillDone =>
        \A k \in 1..Len(df0.rows) :
            LET cell == Filled.rows[k].cells[TrilogyCol] IN
            IF IsHeaderRow(df0.rows[k]) THEN cell = NoneCell
            ELSE IF HeadersBefore(k) # {} THEN cell.kind = "str" /\ cell.str # <<>>
            ELSE cell = StrCell(<<>>)

\* a film row before the first header row, a header row and a film row after it
C2_Witness ==
    /\ FillDone
    /\ \E k1, k2, k3 \in 1..Len(df0.rows) :
          /\ k1 < k2 /\ k2 < k3
          /\ ~IsHeaderRow(df0.rows[k1]) /\ HeadersBefore(k1) = {}
          /\ IsHeaderRow(df0.rows[k2])
          /\ ~IsHeaderRow(df0.rows[k3])

Returned == pf.pc = "return"

Result == pf.heap[pf.result]

\* C3: the result of process_films (needed_flag true) has no trilogy header row
\* and has every other input row exactly once, in the order of the input table.
C3_HeadersOnlyLabel ==
    (Returned /\ pf.needed_flag) =>
        /\ \A k \in 1..Len(Result.rows) : ~IsHeaderRow(Result.rows[k])
        /\ \A j \in 1..Len(df0.rows) :
              ~IsHeaderRow(df0.rows[j]) =>
                  /\ Cardinality({k \in 1..Len(Result.rows) :
                                     Result.rows[k].idx = df0.rows[j].idx}) = 1
                  /\ \A k \in 1..Len(Result.rows) :
                        Result.rows[k].idx = df0.rows[j].idx =>
                            Result.rows[k].cells[FilmCol] = df0.rows[j].cells[FilmCol]
        /\ \A k \in 1..Len(Result.rows) :
              \E j \in 1..Len(df0.rows) : df0.rows[j].idx = Result.rows[k].idx
        /\ \A k1, k2 \in 1..Len(Result.rows) :
              k1 < k2 => Result.rows[k1].idx < Result.rows[k2].idx

\* a table with a header row between two film rows has been processed
C3_Witness ==
    /\ Returned /\ pf.needed_flag
    /\ \E k1, k2, k3 \in 1..Len(df0.rows) :
          /\ k1 < k2 /\ k2 < k3
          /\ ~IsHeaderRow(df0.rows[k1])
          /\ IsHeaderRow(df0.rows[k2])
          /\ ~IsHeaderRow(df0.rows[k3])
    /\ Len(Result.rows) = 2

\* C10: process_films leaves the caller's table as it was, at every statement
\* and for both values of needed_flag: same rows, same order, same columns,
\* same unconverted dates.
C10_InputUnchanged == pf.pc # "idle" => pf.heap[pf.arg] = df0

\* a call with needed_flag true on a table with a header row and a film row has
\* returned: a column was added, a row dropped and the dates converted
C10_Witness ==
    /\ Returned /\ pf.needed_flag
    /\ \E k1, k2 \in 1..Len(df0.rows) : IsHeaderRow(df0.rows[k1]) /\ ~IsHeaderRow(df0.rows[k2])
    /\ Result # df0

-----------------------------------------------------------------------------
(* Properties of extract_films *)

\* C9: extract_films returns the table at position table_index of the selected
\* tables when 0 <= table_index < len(tables), and raises IndexError, returning
\* no table, for every other table_index, negative ones included.
C9_AsStated ==
    (ex.pc = "done" /\ ex.net.kind = "response" /\ ~IsErrorStatus(ex.net.status)) =>
        LET tables == SelectTables(ex.net.page, ClassName)
            i      == ex.table_index
        IN  IF 0 <= i /\ i < Len(tables)
            THEN ex.out.returned /\ ex.out.df = ReadHtml(tables[i + 1])
            ELSE ~ex.out.returned /\ ex.out.exc = "IndexError" /\ ex.out.df = EmptyFrame

-----------------------------------------------------------------------------
(* Properties of a run of main *)

Prepared == dw_data # EmptyFrame

YearAt(k) == dw_data.rows[k].cells[YearCol].num[1]

Ops == [k \in 1..Len(dw_calls) |-> dw_calls[k].op]

\* C4: the chart is created only after all tables are fetched, cleaned,
\* concatenated and sorted, and with that dataset; every later API call is made
\* after creation has returned and with the id it returned; a run without error
\* creates once, then updates once, then returns "Done".
C4_LinearPipeline ==
    /\ dw_calls # <<>> =>
          /\ todo = <<>>
          /\ Len(film_data) = Len(film_category)
          /\ Prepared
          /\ \A k1, k2 \in 1..Len(dw_data.rows) : k1 < k2 => YearAt(k1) <= YearAt(k2)
          /\ dw_calls[1].op = "create_chart"
          /\ dw_calls[1].data = dw_data
    /\ \A k \in 2..Len(dw_calls) :
          /\ dw_calls[k].op # "create_chart"
          /\ dw_calls[1].returned # ""
          /\ dw_calls[k].chart_id = dw_calls[1].returned
    /\ pc = "done" =>
          /\ exc = ""
          /\ ret = "Done"
          /\ Ops = <<"create_chart", "get_chart", "update_chart", "update_description">>
    /\ ret = "Done" => pc = "done"

\* a run has returned "Done" after charting at least two films
C4_Witness == pc = "done" /\ ret = "Done" /\ Len(dw_data.rows) >= 2 /\ Len(dw_calls) = 4

\* C5 as stated: one GET per run; no table selection is preceded by a further GET.
C5_AsStated == Len(http_gets) <= 1

\* the run stopped inside the extraction loop
RaisedInExtract == pc = "raised" /\ todo # <<>>

\* C5 (amended): in one run every GET is of the one URL, one GET is issued per
\* table extracted (three in a run that extracts all three tables), and each
\* table is selected from the page its own GET fetched.
C5_OneGetPerTable ==
    /\ \A k \in 1..Len(http_gets) : http_gets[k].url = URL
    /\ Len(http_gets) = Len(film_data) + (IF RaisedInExtract THEN 1 ELSE 0)
    /\ \A k \in 1..Len(film_data) :
          /\ film_data[k].category = film_category[k].category
          /\ film_data[k].df =
                ReadHtml(SelectTables(http_gets[k].net.page, ClassName)[film_category[k].index + 1])
    /\ todo = <<>> => Len(http_gets) = Len(film_category)

\* all three tables are extracted, from three fetched pages that differ
C5_Witness ==
    /\ Len(film_data) = 3
    /\ Len(http_gets) = 3
    /\ http_gets[1].net.page # http_gets[2].net.page
    /\ http_gets[2].net.page # http_gets[3].net.page

\* C6: the dataset prepare_dw_data returns is ascending in Year, whatever the
\* order of the rows in the three tables.
C6_SortedByYear ==
    Prepared => \A k1, k2 \in 1..Len(dw_data.rows) : k1 < k2 => YearAt(k1) <= YearAt(k2)

\* a dataset was prepared from a Standalone table with a 2015 row and a Special
\* table with a 1977 row: the concatenation is not in order
C6_Witness ==
    /\ Prepared
    /\ \E k \in 1..Len(film_data[2].df.rows) : film_data[2].df.rows[k].cells[DateCol].str = Dec2015
    /\ \E k \in 1..Len(film_data[3].df.rows) : film_data[3].df.rows[k].cells[DateCol].str = May1977

\* the (Film, Year) pairs of the dataset
DataPairs == [k \in 1..Len(dw_data.rows) |->
                <<dw_data.rows[k].cells[FilmCol].str, YearAt(k)>>]

\* the (Film, year of the release date) pairs of the rows of an extracted table,
\* without its header rows when dropHeaders
TablePairs(df, dropHeaders) ==
    LET kept == SelectSeq(df.rows, LAMBDA r : ~(dropHeaders /\ IsHeaderRow(r)))
    IN  [k \in 1..Len(kept) |-> <<FilmOf(kept[k]), NumeralValue(kept[k].cells[DateCol].str[3])>>]

Count(seq, v) == Cardinality({k \in 1..Len(seq) : seq[k] = v})

SameBag(a, b) ==
    \A v \in {a[k] : k \in 1..Len(a)} \cup {b[k] : k \in 1..Len(b)} : Count(a, v) = Count(b, v)

\* C7 as stated: the dataset has the columns Film and Year, one row for every
\* non-header row of the three tables and no trilogy header row, each with the
\* year of its release date.
C7_AsStated ==
    Prepared =>
        /\ dw_data.columns = <<FilmCol, YearCol>>
        /\ \A k \in 1..Len(dw_data.rows) : ~IsHeaderRow(dw_data.rows[k])
        /\ SameBag(DataPairs,
                   TablePairs(film_data[1].df, TRUE) \o TablePairs(film_data[2].df, TRUE)
                       \o TablePairs(film_data[3].df, TRUE))

\* C7 (amended): the dataset has exactly the columns Film and Year (no Trilogy)
\* and one row for every non-header row of the Skywalker table and for every
\* row of the Standalone and Special tables, whose rows with "trilogy" in Film
\* are kept; each row's Year is the year of its release date.
C7_FilmYearRows ==
    Prepared =>
        /\ dw_data.columns = <<FilmCol, YearCol>>
        /\ \A k \in 1..Len(dw_data.rows) : DOMAIN dw_data.rows[k].cells = {FilmCol, YearCol}
        /\ SameBag(DataPairs,
                   TablePairs(film_data[1].df, TRUE) \o TablePairs(film_data[2].df, FALSE)
                       \o TablePairs(film_data[3].df, FALSE))

\* a dataset was prepared from a Skywalker table with a header row and a film
\* row and a Standalone table with a row
C7_Witness ==
    /\ Prepared
    /\ \E k1, k2 \in 1..Len(film_data[1].df.rows) :
          IsHeaderRow(film_data[1].df.rows[k1]) /\ ~IsHeaderRow(film_data[1].df.rows[k2])
    /\ Len(film_data[2].df.rows) >= 1
    /\ Len(dw_data.rows) >= 2

Failed(net) == net.kind # "response" \/ IsErrorStatus(net.status)

RequestException(net) == IF net.kind # "response" THEN net.kind ELSE "HTTPError"

\* C8: when a GET fails, the error is logged and the same request exception
\* ends the run: no response is returned for it, no further GET is issued, and
\* neither chart creation nor chart update is called.
C8_FetchFailureEndsRun ==
    /\ \A k \in 1..Len(http_gets) :
          Failed(http_gets[k].net) =>
              /\ k = Len(http_gets)
              /\ pc = "raised"
              /\ exc = RequestException(http_gets[k].net)
              /\ errlog = <<[level |-> "ERROR", exc |-> RequestException(http_gets[k].net)]>>
              /\ Len(film_data) = k - 1
              /\ dw_calls = <<>>
              /\ ~Prepared
              /\ ret = ""
    /\ errlog # <<>> => Failed(http_gets[Len(http_gets)].net)

\* the second GET of a run was answered with status 404
C8_Witness ==
    /\ Len(http_gets) = 2
    /\ http_gets[2].net.kind = "response"
    /\ http_gets[2].net.status = 404
    /\ pc = "raised"

====
